---- MODULE Spec2Model ----
(***************************************************************************)
(* Model of the dependency-explorer graph engine.                          *)
(*                                                                         *)
(*   Spec         the query engine of ui/lib/packages.ts and the sub-graph *)
(*                extraction of the Investigate view, as a machine whose   *)
(*                steps are calls on a node list.                          *)
(*   CollectSpec  a run of collect-deps.sh: selection filter, the parallel *)
(*                collect-pactree.sh workers, the manifest, and the        *)
(*                broken-dependency pass of the UI on the written nodes.   *)
(***************************************************************************)
EXTENDS Integers, Sequences, FiniteSets, TLC

VARIABLES
  nodes,   \* the node list passed to the last call, as it is after the call
  input,   \* the same list as it was when the call was made
  ret,     \* what the last call returned
  call,    \* the last call: operation and arguments
  env,           \* the package database and the tool failures of this run
  filter,        \* FILTER_MODE and FILTER_VALUE
  all_packages,  \* the packages to collect, in name order
  step,          \* where collect-deps.sh is
  worker,        \* where the collect-pactree.sh of each package is
  tmp_dir,       \* the .dep, .odep, .rdep and .ordep file of each package
  failures_log,  \* the lines of failures.log
  selected_packages,  \* the seeds of the selection
  stderr,        \* the error collect-deps.sh ended with, if it did
  sed,     \* one line of a listing and what the two sed programs print for it
  walk     \* a traversal in progress: its frames and its sets

qvars == <<nodes, input, ret, call>>

cvars ==
  <<env, filter, all_packages, step, worker, tmp_dir, failures_log,
    selected_packages, stderr>>

xvars == <<sed, walk>>

vars == <<qvars, cvars, xvars>>

(***************************************************************************)
(* Bounds                                                                  *)
(***************************************************************************)
\* Largest number of adjacency entries and raised flags in an initial graph.
MaxSize == 3

\* Largest number of facts (dependencies, explicit installs, failing tool
\* calls) in the package database of a collection run.
MaxFacts == 3

\* xargs -P "${JOBS}": the number of collect-pactree.sh running at a time.
JOBS == 2

\* Largest count given to --first, --last and --random, and largest number of
\* names given to --select.
MaxCount == 2

(***************************************************************************)
(* Names                                                                   *)
(***************************************************************************)
NameSeq == <<"a", "b", "c">>

Names == {NameSeq[i] : i \in 1..Len(NameSeq)}

\* The strings that are sorted, in the order sort and localeCompare put them:
\* the names, and the names with the mark of an unresolvable optional entry.
Collation == <<"a", "a*", "b", "b*", "c", "c*">>

\* a.localeCompare(b) < 0 iff Rank(a) < Rank(b)
Rank(n) == CHOOSE i \in 1..Len(Collation) : Collation[i] = n

Range(s) == {s[i] : i \in 1..Len(s)}

RECURSIVE SortedSeq(_)
\* a name set as the list `sort -u` writes it
SortedSeq(S) ==
  IF S = {} THEN <<>>
  ELSE LET m == CHOOSE x \in S : \A y \in S : Rank(x) <= Rank(y)
       IN <<m>> \o SortedSeq(S \ {m})

(***************************************************************************)
(* Node lists the engine is called on                                      *)
(***************************************************************************)
Kinds == {"dep", "req", "opt"}

Flags == {"explicit", "broken"}

\* A slot is one adjacency entry <<source, kind, target>> or one raised
\* flag <<source, flag, source>> of a node.
Slots ==
  {<<s, k, t>> : s \in Names, k \in Kinds, t \in Names}
    \cup {<<s, f, s>> : s \in Names, f \in Flags}

RECURSIVE SubsetsUpTo(_, _)
SubsetsUpTo(S, n) ==
  IF n = 0 THEN {{}}
  ELSE LET P == SubsetsUpTo(S, n - 1)
       IN P \cup {p \cup {x} : p \in P, x \in S}

Adj(F, n, k) == SortedSeq({t \in Names : <<n, k, t>> \in F})

PackageNode(n, F) ==
  [id |-> n,
   explicit |-> <<n, "explicit", n>> \in F,
   version |-> IF <<n, "broken", n>> \in F THEN "missing" ELSE "1.0",
   depends_on |-> Adj(F, n, "dep"),
   required_by |-> Adj(F, n, "req"),
   optional_depends_on |-> Adj(F, n, "opt"),
   broken |-> <<n, "broken", n>> \in F]

\* The nodes of a data file: one record per key, keys in name order.
NodeList(ids, F) ==
  LET s == SortedSeq(ids) IN [i \in 1..Len(s) |-> PackageNode(s[i], F)]

NodeLists ==
  {NodeList(ids, F) :
     <<ids, F>> \in {<<i, f>> \in (SUBSET Names) \X SubsetsUpTo(Slots, MaxSize) :
                       \A sl \in f : sl[1] \in i}}

Ids(list) == {list[i].id : i \in 1..Len(list)}

\* nodes.find((n) => n.id === packageId): the index of the first match, 0 if none
Find(list, packageId) ==
  IF \E i \in 1..Len(list) : list[i].id = packageId
  THEN CHOOSE i \in 1..Len(list) :
         list[i].id = packageId /\ \A j \in 1..(i - 1) : list[j].id # packageId
  ELSE 0

(***************************************************************************)
(* ui/lib/packages.ts                                                      *)
(***************************************************************************)
RECURSIVE collectPackageTree(_, _, _)
RECURSIVE forEachPackageTree(_, _, _, _)

\* Mutant: a name without a record is dropped from the result.
collectPackageTree_DropsUnknown(packageId, list, result) ==
  IF packageId \in result \/ Find(list, packageId) = 0 THEN result
  ELSE forEachPackageTree(list[Find(list, packageId)].depends_on, 1, list,
                          result \cup {packageId})

\* pkg.depends_on.forEach((dep) => collectPackageTree(dep, nodes, result))
forEachPackageTree(deps, i, list, result) ==
  IF i > Len(deps) THEN result
  ELSE forEachPackageTree(deps, i + 1, list,
                          collectPackageTree(deps[i], list, result))

\* The result set after the call.
collectPackageTree(packageId, list, result) ==
  IF packageId \in result THEN result
  ELSE LET added == result \cup {packageId}
           pkg == Find(list, packageId)
       IN IF pkg = 0 THEN added
          ELSE forEachPackageTree(list[pkg].depends_on, 1, list, added)

RECURSIVE collectReversePackageTree(_, _, _)
RECURSIVE forEachReverseTree(_, _, _, _)

forEachReverseTree(parents, i, list, result) ==
  IF i > Len(parents) THEN result
  ELSE forEachReverseTree(parents, i + 1, list,
                          collectReversePackageTree(parents[i], list, result))

collectReversePackageTree(packageId, list, result) ==
  IF packageId \in result THEN result
  ELSE LET added == result \cup {packageId}
           pkg == Find(list, packageId)
       IN IF pkg = 0 THEN added
          ELSE forEachReverseTree(list[pkg].required_by, 1, list, added)

RECURSIVE collectDependencies(_, _, _, _)
RECURSIVE forEachDependency(_, _, _, _, _)

\* The pair <<visited, result>> after the call.
forEachDependency(deps, i, list, visited, result) ==
  IF i > Len(deps) THEN <<visited, result>>
  ELSE LET r == collectDependencies(deps[i], list, visited,
                                    result \cup {deps[i]})
       IN forEachDependency(deps, i + 1, list, r[1], r[2])

collectDependencies(packageId, list, visited, result) ==
  IF packageId \in visited THEN <<visited, result>>
  ELSE LET seen == visited \cup {packageId}
           pkg == Find(list, packageId)
       IN IF pkg = 0 THEN <<seen, result>>
          ELSE forEachDependency(list[pkg].depends_on, 1, list, seen, result)

isOrphaned(pkg) == ~pkg.explicit /\ Len(pkg.required_by) = 0

RECURSIVE Insert(_, _)
\* p placed after every element that does not compare greater (a stable sort)
Insert(sorted, p) ==
  IF sorted = <<>> THEN <<p>>
  ELSE IF Rank(p.id) < Rank(Head(sorted).id) THEN <<p>> \o sorted
  ELSE <<Head(sorted)>> \o Insert(Tail(sorted), p)

RECURSIVE sortPackagesByName(_)
\* packages.sort((a, b) => a.id.localeCompare(b.id)): the array after the call
sortPackagesByName(packages) ==
  IF packages = <<>> THEN <<>>
  ELSE Insert(sortPackagesByName(SubSeq(packages, 1, Len(packages) - 1)),
              packages[Len(packages)])

RECURSIVE Filter(_, _)
\* arr.filter((dep) => keep.has(dep))
Filter(arr, keep) ==
  IF arr = <<>> THEN <<>>
  ELSE (IF Head(arr) \in keep THEN <<Head(arr)>> ELSE <<>>)
         \o Filter(Tail(arr), keep)

\* Mutant: required_by is copied unfiltered.
cleanedNodes_Unfiltered(list) == list

\* nodes.map((node) => ({...node, required_by: node.required_by.filter(...)}))
cleanedNodes(list) ==
  [i \in 1..Len(list) |->
     [list[i] EXCEPT !.required_by = Filter(@, Ids(list))]]

RECURSIVE AddAll(_, _, _)
\* Mutant: brokenDeps is an array, so a name is added once per referrer.
AddAll_NoDedup(deps, known, broken) ==
  IF deps = <<>> THEN broken
  ELSE AddAll(Tail(deps), known,
              IF Head(deps) \in known THEN broken ELSE Append(broken, Head(deps)))

\* deps.forEach((dep) => { if (!nodeMap.has(dep)) brokenDeps.add(dep) }),
\* brokenDeps kept in insertion order
AddAll(deps, known, broken) ==
  IF deps = <<>> THEN broken
  ELSE AddAll(Tail(deps), known,
              IF Head(deps) \in known \/ Head(deps) \in Range(broken)
              THEN broken ELSE Append(broken, Head(deps)))

RECURSIVE brokenDeps(_, _, _)
\* Mutant: nodeMap holds the records that are not broken only.
brokenDeps_RealOnly(list, i, broken) ==
  IF i > Len(list) THEN broken
  ELSE brokenDeps(list, i + 1,
                  AddAll(list[i].depends_on,
                         {list[j].id : j \in {k \in 1..Len(list) : ~list[k].broken}},
                         broken))

\* cleanedNodes.forEach((node) => node.depends_on.forEach(...))
brokenDeps(list, i, broken) ==
  IF i > Len(list) THEN broken
  ELSE brokenDeps(list, i + 1, AddAll(list[i].depends_on, Ids(list), broken))

\* The synthetic record has no optional_depends_on property; nothing reads
\* it, and it is modelled as the empty list.
syntheticNode(dep) ==
  [id |-> dep,
   explicit |-> FALSE,
   version |-> "missing",
   depends_on |-> <<>>,
   required_by |-> <<>>,
   optional_depends_on |-> <<>>,
   broken |-> TRUE]

processBrokenDependencies(list) ==
  IF Len(list) = 0 THEN <<>>
  ELSE LET broken == brokenDeps(cleanedNodes(list), 1, <<>>)
       IN cleanedNodes(list) \o [i \in 1..Len(broken) |-> syntheticNode(broken[i])]

\* Mutant: explicit counts broken nodes too.
explicitCount_WithBroken(list) ==
  Cardinality({i \in 1..Len(list) : list[i].explicit})

\* nodes.filter((n) => n.explicit && !n.broken).length
explicitCount(list) ==
  Cardinality({i \in 1..Len(list) : list[i].explicit /\ ~list[i].broken})

\* nodes.filter((n) => n.broken).length
brokenCount(list) == Cardinality({i \in 1..Len(list) : list[i].broken})

countPackages(list) ==
  [explicit |-> explicitCount(list),
   dependency |-> Len(list) - explicitCount(list) - brokenCount(list),
   broken |-> brokenCount(list),
   total |-> Len(list)]

(***************************************************************************)
(* collect-pactree.sh: the tree listings and their parsing                 *)
(*                                                                         *)
(* A line of a listing is a sequence of tokens: a tree-drawing glyph, a    *)
(* space, a colon, a version operator, or a word without any of these.     *)
(***************************************************************************)
\* The class of the box-drawing glyphs and the space; the glyphs are written
\* "|-" (branch), "L-" (last branch) and "|" (rule).
IsTree(t) == t \in {"|-", "L-", "|", " "}

\* [<>=]
IsVersion(t) == t \in {"<", ">", "="}

\* [: ]
IsSeparator(t) == t \in {":", " "}

RECURSIVE Join(_)
\* the text of a token sequence
Join(line) == IF line = <<>> THEN "" ELSE Head(line) \o Join(Tail(line))

\* /\(optional\)/
IsOptionalLine(line) == \E i \in 1..Len(line) : line[i] = "(optional)"

RECURSIVE StripTree(_)
\* s/^[glyphs and space]+//
StripTree(line) ==
  IF line # <<>> /\ IsTree(Head(line)) THEN StripTree(Tail(line)) ELSE line

RECURSIVE StripVersion(_)
\* s/[<>=].*$//
StripVersion(line) ==
  IF line = <<>> \/ IsVersion(Head(line)) THEN <<>>
  ELSE <<Head(line)>> \o StripVersion(Tail(line))

RECURSIVE NameRun(_)
\* the longest prefix matching [^: ]+
NameRun(line) ==
  IF line = <<>> \/ IsSeparator(Head(line)) THEN <<>>
  ELSE <<Head(line)>> \o NameRun(Tail(line))

RECURSIVE StripAfterName(_)
\* s/([^: ]+).*/\1/: the leftmost run of [^: ] is kept, what follows it goes
StripAfterName(line) ==
  IF line = <<>> THEN <<>>
  ELSE IF IsSeparator(Head(line)) THEN <<Head(line)>> \o StripAfterName(Tail(line))
  ELSE NameRun(line)

RECURSIVE MarkUnresolvable(_)
\* s/([^: ]+).+\[unresolvable\].*/\1*/
MarkUnresolvable(line) ==
  IF line = <<>> THEN <<>>
  ELSE IF IsSeparator(Head(line))
  THEN <<Head(line)>> \o MarkUnresolvable(Tail(line))
  ELSE LET run == NameRun(line)
           rest == SubSeq(line, Len(run) + 1, Len(line))
       IN IF \E i \in 2..Len(rest) : rest[i] = "[unresolvable]"
          THEN run \o <<"*">>
          ELSE line

\* sed -E "${NON_OPT_REGEX}" on one line: the lines it prints (none or one).
\* pkg_escaped matches the name of the package literally.
NON_OPT_REGEX(line, pkg) ==
  IF IsOptionalLine(line) THEN {}
  ELSE LET text == Join(StripAfterName(StripVersion(StripTree(line))))
       IN IF text = pkg THEN {} ELSE {text}

\* sed -E "${OPT_REGEX}" on one line
OPT_REGEX(line, pkg) ==
  IF ~IsOptionalLine(line) THEN {}
  ELSE LET text == Join(StripAfterName(MarkUnresolvable(StripTree(line))))
       IN IF text = pkg THEN {} ELSE {text}

\* Mutant: the names go through a scratch file all workers share, and are
\* lost when another worker is running.
Mandatory_SharedScratch(lines, pkg) ==
  IF \E q \in DOMAIN worker : q # pkg /\ worker[q] \in {"direct", "reverse"}
  THEN {}
  ELSE UNION {NON_OPT_REGEX(lines[i], pkg) : i \in 1..Len(lines)}

\* echo "${output}" | sed -E ... | sort -u, as the set of the file's lines
Mandatory(lines, pkg) == UNION {NON_OPT_REGEX(lines[i], pkg) : i \in 1..Len(lines)}

Optional(lines, pkg) == UNION {OPT_REGEX(lines[i], pkg) : i \in 1..Len(lines)}

(***************************************************************************)
(* Investigate view: sub-graph extraction                                  *)
(***************************************************************************)
Directions == {"forward", "reverse", "both"}

\* selectedPackage === null
NoPackage == ""

\* Mutant: the key does not tell a pair from its opposite.
linkKey_Unordered(source, target) ==
  IF Rank(source) <= Rank(target) THEN source \o "->" \o target
  ELSE target \o "->" \o source

\* `${source}->${target}`
linkKey(source, target) == source \o "->" \o target

\* A link; found is whether nodes.find(...) had a record to hand to
\* getLinkType, which is not part of this repository's lib.
PackageLink(source, target, list, other) ==
  [source |-> source, target |-> target, found |-> Find(list, other) # 0]

RECURSIVE addForwardLinks(_, _, _, _, _, _)
\* <<linkSet, subLinks>> after node.depends_on.forEach(...), from entry i on
addForwardLinks(node, i, treePackageIds, linkSet, subLinks, list) ==
  IF i > Len(node.depends_on) THEN <<linkSet, subLinks>>
  ELSE LET dep == node.depends_on[i]
           key == linkKey(node.id, dep)
       IN IF dep \in treePackageIds /\ key \notin linkSet
          THEN addForwardLinks(node, i + 1, treePackageIds,
                               linkSet \cup {key},
                               Append(subLinks, PackageLink(node.id, dep, list, dep)),
                               list)
          ELSE addForwardLinks(node, i + 1, treePackageIds, linkSet, subLinks, list)

RECURSIVE addReverseLinks(_, _, _, _, _, _)
addReverseLinks(node, i, treePackageIds, linkSet, subLinks, list) ==
  IF i > Len(node.required_by) THEN <<linkSet, subLinks>>
  ELSE LET parent == node.required_by[i]
           key == linkKey(parent, node.id)
       IN IF parent \in treePackageIds /\ key \notin linkSet
          THEN addReverseLinks(node, i + 1, treePackageIds,
                               linkSet \cup {key},
                               Append(subLinks, PackageLink(parent, node.id, list, parent)),
                               list)
          ELSE addReverseLinks(node, i + 1, treePackageIds, linkSet, subLinks, list)

\* Collect packages based on direction
treePackageIds(selected, list, direction) ==
  IF direction = "forward" THEN collectPackageTree(selected, list, {})
  ELSE IF direction = "reverse" THEN collectReversePackageTree(selected, list, {})
  ELSE collectPackageTree(selected, list, {})
         \cup collectReversePackageTree(selected, list, {})

RECURSIVE FilterNodes(_, _)
\* Mutant: a node that depends on a name of the tree is kept as well.
FilterNodes_WithParents(list, keep) ==
  IF list = <<>> THEN <<>>
  ELSE (IF Head(list).id \in keep \/ Range(Head(list).depends_on) \cap keep # {}
        THEN <<Head(list)>> ELSE <<>>)
         \o FilterNodes(Tail(list), keep)

\* nodes.filter((n) => treePackageIds.has(n.id))
FilterNodes(list, keep) ==
  IF list = <<>> THEN <<>>
  ELSE (IF Head(list).id \in keep THEN <<Head(list)>> ELSE <<>>)
         \o FilterNodes(Tail(list), keep)

RECURSIVE buildLinks(_, _, _, _, _, _)
\* subNodes.forEach((node) => { forward links, then reverse links })
buildLinks(subNodes, i, tree, direction, acc, list) ==
  IF i > Len(subNodes) THEN acc[2]
  ELSE LET fwd == IF direction \in {"forward", "both"}
                  THEN addForwardLinks(subNodes[i], 1, tree, acc[1], acc[2], list)
                  ELSE acc
           rev == IF direction \in {"reverse", "both"}
                  THEN addReverseLinks(subNodes[i], 1, tree, fwd[1], fwd[2], list)
                  ELSE fwd
       IN buildLinks(subNodes, i + 1, tree, direction, rev, list)

subGraphData(selected, list, direction) ==
  IF selected = NoPackage THEN [nodes |-> <<>>, links |-> <<>>]
  ELSE LET tree == treePackageIds(selected, list, direction)
           subNodes == FilterNodes(list, tree)
       IN [nodes |-> subNodes,
           links |-> buildLinks(subNodes, 1, tree, direction, <<{}, <<>>>>, list)]

(***************************************************************************)
(* The machine: every step is one call                                     *)
(***************************************************************************)
NoCounts == [explicit |-> 0, dependency |-> 0, broken |-> 0, total |-> 0]

NoReturn ==
  [kind |-> "none", set |-> {}, list |-> <<>>, links |-> <<>>,
   bool |-> FALSE, counts |-> NoCounts]

Called(op, id, direction, at) ==
  [op |-> op, id |-> id, direction |-> direction, at |-> at]

\* No call is in progress: the caller holds a node list.
Idle == call.op = "none"

\* collect-deps.sh has printed no error.
NoError == [error |-> "", pkg |-> ""]

\* The UI holds a data file of an earlier run; no collection is going on.
NoCollection ==
  /\ env = [installed |-> {}, facts |-> {}, explicit_list |-> <<>>]
  /\ filter = [mode |-> "", value |-> 0, names |-> <<>>]
  /\ all_packages = <<>>
  /\ step = "done"
  /\ worker = <<>>
  /\ tmp_dir = <<>>
  /\ failures_log = <<>>
  /\ selected_packages = <<>>
  /\ stderr = NoError

\* No line is being parsed.
NoLine ==
  sed = [pkg |-> NoPackage, line |-> <<>>, printed |-> FALSE, dep |-> {}, odep |-> {}]

\* No traversal is being stepped through.
NoWalk ==
  walk = [op |-> "none", stack |-> <<>>, result |-> {}, visited |-> {},
          expanded |-> [n \in Names |-> 0], calls |-> 0]

NoSteps == NoLine /\ NoWalk

Init ==
  /\ NoSteps
  /\ nodes \in NodeLists
  /\ input = nodes
  /\ ret = NoReturn
  /\ call = Called("none", NoPackage, "forward", 0)
  /\ NoCollection

CollectPackageTree ==
  Idle /\ \E id \in Names :
    /\ input' = nodes
    /\ nodes' = nodes
    /\ ret' = [NoReturn EXCEPT !.kind = "set",
                               !.set = collectPackageTree(id, nodes, {})]
    /\ call' = Called("collectPackageTree", id, "forward", 0)
    /\ UNCHANGED <<cvars, xvars>>

CollectReversePackageTree ==
  Idle /\ \E id \in Names :
    /\ input' = nodes
    /\ nodes' = nodes
    /\ ret' = [NoReturn EXCEPT !.kind = "set",
                               !.set = collectReversePackageTree(id, nodes, {})]
    /\ call' = Called("collectReversePackageTree", id, "reverse", 0)
    /\ UNCHANGED <<cvars, xvars>>

CollectDependencies ==
  Idle /\ \E id \in Names :
    /\ input' = nodes
    /\ nodes' = nodes
    /\ ret' = [NoReturn EXCEPT !.kind = "set",
                               !.set = collectDependencies(id, nodes, {}, {})[2]]
    /\ call' = Called("collectDependencies", id, "forward", 0)
    /\ UNCHANGED <<cvars, xvars>>

IsOrphaned ==
  Idle /\ \E i \in 1..Len(nodes) :
    /\ input' = nodes
    /\ nodes' = nodes
    /\ ret' = [NoReturn EXCEPT !.kind = "bool", !.bool = isOrphaned(nodes[i])]
    /\ call' = Called("isOrphaned", nodes[i].id, "forward", i)
    /\ UNCHANGED <<cvars, xvars>>

\* Array.prototype.sort sorts the array it is called on and returns it.
SortPackagesByName ==
  /\ Idle
  /\ input' = nodes
  /\ nodes' = sortPackagesByName(nodes)
  /\ ret' = [NoReturn EXCEPT !.kind = "list", !.list = nodes']
  /\ call' = Called("sortPackagesByName", NoPackage, "forward", 0)
  /\ UNCHANGED <<cvars, xvars>>

ProcessBrokenDependencies ==
  /\ Idle
  /\ input' = nodes
  /\ nodes' = nodes
  /\ ret' = [NoReturn EXCEPT !.kind = "list",
                             !.list = processBrokenDependencies(nodes)]
  /\ call' = Called("processBrokenDependencies", NoPackage, "forward", 0)
  /\ UNCHANGED <<cvars, xvars>>

CountPackages ==
  /\ Idle
  /\ input' = nodes
  /\ nodes' = nodes
  /\ ret' = [NoReturn EXCEPT !.kind = "counts", !.counts = countPackages(nodes)]
  /\ call' = Called("countPackages", NoPackage, "forward", 0)
  /\ UNCHANGED <<cvars, xvars>>

\* getLinkType is handed the record nodes.find(...) returned; handed
\* undefined it may throw, and then the view has no sub-graph.
SubGraphData ==
  Idle /\ \E selected \in Names \cup {NoPackage}, direction \in Directions,
     throws \in BOOLEAN :
    LET g == subGraphData(selected, nodes, direction)
        undefinedArg == \E k \in 1..Len(g.links) : ~g.links[k].found
    IN /\ throws => undefinedArg
       /\ input' = nodes
       /\ nodes' = nodes
       /\ ret' = IF throws THEN [NoReturn EXCEPT !.kind = "error"]
                 ELSE [NoReturn EXCEPT !.kind = "graph", !.list = g.nodes,
                                       !.links = g.links]
       /\ call' = Called("subGraphData", selected, direction, 0)
       /\ UNCHANGED <<cvars, xvars>>

\* The caller goes on with the list it passed or with a node list the call
\* returned (filteredPackages, subGraphData.nodes).
Continue ==
  /\ ~Idle
  /\ \E arg \in {nodes} \cup (IF ret.kind \in {"list", "graph"} THEN {ret.list} ELSE {}) :
       /\ nodes' = arg
       /\ input' = arg
  /\ ret' = NoReturn
  /\ call' = Called("none", NoPackage, "forward", 0)
  /\ UNCHANGED <<cvars, xvars>>

Next ==
  \/ CollectPackageTree
  \/ CollectReversePackageTree
  \/ CollectDependencies
  \/ IsOrphaned
  \/ SortPackagesByName
  \/ ProcessBrokenDependencies
  \/ CountPackages
  \/ SubGraphData
  \/ Continue

Spec == Init /\ [][Next]_vars

(***************************************************************************)
(* collect-deps.sh: a collection run                                       *)
(***************************************************************************)
\* What the package database holds and how the tool behaves in this run:
\* <<p, "dep", d>> p depends on d, <<p, "opt", d>> p optionally depends on d,
\* <<p, "fail", direction>> the pactree call of that direction fails for p.
Facts ==
  {<<p, k, d>> : p \in Names, k \in {"dep", "opt"}, d \in Names}
    \cup {<<p, "fail", d>> : p \in Names, d \in {"direct", "reverse"}}

RECURSIVE Arrangements(_)
\* The sequences of distinct elements of S, of every length.
Arrangements(S) ==
  {<<>>} \cup UNION {{<<x>> \o s : s \in Arrangements(S \ {x})} : x \in S}

\* What may hold of the installed packages i, of the kinds given: every fact
\* is about an installed package and none makes a package depend on itself.
PackageFacts(i, kinds) ==
  SubsetsUpTo({f \in Facts : /\ f[1] \in i
                             /\ f[2] \in kinds
                             /\ f[2] \in {"dep", "opt"} => f[3] # f[1]},
              MaxFacts)

\* pacman -Qq is the installed packages and pacman -Qqe the explicitly
\* installed ones, in the order pacman lists them.
Environment(i, facts, explicit_list) ==
  [installed |-> i, facts |-> facts, explicit_list |-> explicit_list]

\* The names of the sync repositories.
Repos == {"core", "extra"}

\* FOREIGN is what pacman -Qqm lists, REPO_CACHE the repository pacman -Si
\* gives for a name, "" for a name it does not list.
Databases ==
  {[FOREIGN |-> F, REPO_CACHE |-> R] :
     F \in SUBSET Names, R \in [Names -> Repos \cup {""}]}

\* One foreign package and no sync database.
OneForeign(e) ==
  [FOREIGN |-> {Head(SortedSeq(e.installed))}, REPO_CACHE |-> [p \in Names |-> ""]]

\* FILTER_MODE with FILTER_VALUE: the count of --first, --last and --random,
\* the comma-separated names of --select.
Filters ==
  {[mode |-> "", value |-> 0, names |-> <<>>]}
    \cup {[mode |-> m, value |-> n, names |-> <<>>] :
            m \in {"first", "last", "random"}, n \in 0..MaxCount}
    \cup {[mode |-> "select", value |-> 0, names |-> s] :
            s \in {t \in Arrangements(Names) : Len(t) \in 1..MaxCount}}

\* "${explicit_array[@]:0:FILTER_VALUE}"
first(explicit_array, FILTER_VALUE) ==
  SubSeq(explicit_array, 1,
         IF FILTER_VALUE < Len(explicit_array) THEN FILTER_VALUE
         ELSE Len(explicit_array))

\* Mutant: start_idx is not clamped, and a count above the length selects
\* nothing.
last_Unclamped(explicit_array, FILTER_VALUE) ==
  IF Len(explicit_array) - FILTER_VALUE < 0 THEN <<>>
  ELSE SubSeq(explicit_array, Len(explicit_array) - FILTER_VALUE + 1,
              Len(explicit_array))

\* "${explicit_array[@]:start_idx}"
last(explicit_array, FILTER_VALUE) ==
  LET start_idx == IF Len(explicit_array) - FILTER_VALUE < 0 THEN 0
                   ELSE Len(explicit_array) - FILTER_VALUE
  IN SubSeq(explicit_array, start_idx + 1, Len(explicit_array))

\* shuf -n "${FILTER_VALUE}": what it may print, that many of the lines or
\* all of them if there are fewer; mapfile reads no output as one empty name.
random(explicit_array, FILTER_VALUE) ==
  IF FILTER_VALUE = 0 THEN {<<NoPackage>>}
  ELSE {s \in Arrangements(Range(explicit_array)) :
          Len(s) = IF FILTER_VALUE < Len(explicit_array) THEN FILTER_VALUE
                   ELSE Len(explicit_array)}

\* selected_packages after the case on FILTER_MODE: its possible values
SelectedPackages(e, f) ==
  IF f.mode = "first" THEN {first(e.explicit_list, f.value)}
  ELSE IF f.mode = "last" THEN {last(e.explicit_list, f.value)}
  ELSE IF f.mode = "random" THEN random(e.explicit_list, f.value)
  ELSE {f.names}

\* One line of a tree listing below the root.
DependencyLine(e, glyph, d, optional) ==
  <<glyph, d>>
    \o (IF optional THEN <<":", " ", "text">>
        ELSE IF d \in e.installed THEN <<" ", "provides", " ", "lib", "=", "1">>
        ELSE <<>>)
    \o (IF d \in e.installed THEN <<>> ELSE <<" ", "[unresolvable]">>)
    \o (IF optional THEN <<" ", "(optional)">> ELSE <<>>)

RequiredByLine(glyph, q, optional) ==
  <<glyph, q>> \o (IF optional THEN <<" ", "(optional)">> ELSE <<>>)

Glyph(i, n) == IF i = n THEN "L-" ELSE "|-"

\* pactree -d1 -o pkg: the package, then what it depends on
DirectTree(e, pkg) ==
  LET deps == SortedSeq({d \in Names : <<pkg, "dep", d>> \in e.facts})
      opts == SortedSeq({d \in Names : <<pkg, "opt", d>> \in e.facts})
      n == Len(deps) + Len(opts)
  IN <<<<pkg>>>>
       \o [i \in 1..Len(deps) |-> DependencyLine(e, Glyph(i, n), deps[i], FALSE)]
       \o [i \in 1..Len(opts) |->
             DependencyLine(e, Glyph(Len(deps) + i, n), opts[i], TRUE)]

\* pactree -r -d1 -o pkg: the package, then the installed packages that
\* depend on it
ReverseTree(e, pkg) ==
  LET deps == SortedSeq({q \in e.installed : <<q, "dep", pkg>> \in e.facts})
      opts == SortedSeq({q \in e.installed : <<q, "opt", pkg>> \in e.facts})
      n == Len(deps) + Len(opts)
  IN <<<<pkg>>>>
       \o [i \in 1..Len(deps) |-> RequiredByLine(Glyph(i, n), deps[i], FALSE)]
       \o [i \in 1..Len(opts) |->
             RequiredByLine(Glyph(Len(deps) + i, n), opts[i], TRUE)]

RECURSIVE Walked(_, _)
\* the installed packages pactree -o walks from those of S
Walked(e, S) ==
  LET T == S \cup {d \in e.installed :
                     \E q \in S, k \in {"dep", "opt"} : <<q, k, d>> \in e.facts}
  IN IF T = S THEN S ELSE Walked(e, T)

\* pactree -o pkg, as the set of its lines less their indentation
FullTree(e, pkg) ==
  {<<pkg>>}
    \cup {DependencyLine(e, "|-", x[3], x[2] = "opt") :
            x \in {f \in e.facts :
                     f[2] \in {"dep", "opt"} /\ f[1] \in Walked(e, {pkg})}}

RECURSIVE StripProvides(_)
\* s/ provides.*//
StripProvides(line) ==
  IF line = <<>> THEN <<>>
  ELSE IF Len(line) >= 2 /\ line[1] = " " /\ line[2] = "provides" THEN <<>>
  ELSE <<Head(line)>> \o StripProvides(Tail(line))

RECURSIVE StripDescription(_)
\* s/:.*$//
StripDescription(line) ==
  IF line = <<>> \/ Head(line) = ":" THEN <<>>
  ELSE <<Head(line)>> \o StripDescription(Tail(line))

\* Mutant: the description after the colon is left on the line.
PACTREE_CLEANUP_REGEX_KeepsDescription(line) ==
  IF \E i \in 1..Len(line) : line[i] = "[unresolvable]" THEN {}
  ELSE {Join(StripVersion(StripProvides(StripTree(line))))} \ {""}

\* sed "${PACTREE_CLEANUP_REGEX}" on one line; an empty line is skipped
PACTREE_CLEANUP_REGEX(line) ==
  IF \E i \in 1..Len(line) : line[i] = "[unresolvable]" THEN {}
  ELSE {Join(StripDescription(StripVersion(StripProvides(StripTree(line)))))}
         \ {""}

\* included_packages after the loop over selected_packages
included_packages(e, selected) ==
  UNION {UNION {PACTREE_CLEANUP_REGEX(l) : l \in FullTree(e, selected[i])} :
           i \in 1..Len(selected)}

RECURSIVE filtered_packages(_, _)
filtered_packages(all, included) ==
  IF all = <<>> THEN <<>>
  ELSE (IF Head(all) \in included THEN <<Head(all)>> ELSE <<>>)
         \o filtered_packages(Tail(all), included)

NoFile == [exists |-> FALSE, lines |-> {}]

File(lines) == [exists |-> TRUE, lines |-> lines]

\* The state at the start of a run in the environment e, of the databases
\* db, with the filter f.
Started(e, f, db) ==
  /\ env = e @@ db
  /\ filter = f
  /\ all_packages = SortedSeq(env.installed)
  /\ step = "explicit"
  /\ worker = [p \in env.installed |-> "queued"]
  /\ tmp_dir = [p \in env.installed |->
                  [dep |-> NoFile, odep |-> NoFile, rdep |-> NoFile, ordep |-> NoFile]]
  /\ failures_log = <<>>
  /\ selected_packages = <<>>
  /\ stderr = NoError
  /\ nodes = <<>>
  /\ input = <<>>
  /\ ret = NoReturn
  /\ call = Called("collect", NoPackage, "forward", 0)
  /\ NoSteps

\* Runs over all packages or the tree of one, with one explicit package.
CollectInit ==
  \E i \in (SUBSET Names) \ {{}} :
    \E facts \in PackageFacts(i, {"dep", "opt", "fail"}) :
      \E f \in {g \in Filters : g.mode \in {"", "select"} /\ Len(g.names) <= 1} :
        LET e == Environment(i, facts, <<Head(SortedSeq(i))>>)
        IN Started(e, f, OneForeign(e))

\* Runs with every kind of selection, the tool never failing; the facts, the
\* explicit packages and the count or names of the selection share a bound.
SelectInit ==
  \E i \in (SUBSET Names) \ {{}} :
    \E facts \in PackageFacts(i, {"dep", "opt"}) :
      \E explicit_list \in Arrangements(i) :
        \E f \in {g \in Filters : g.mode # ""} :
          LET e == Environment(i, facts, explicit_list)
          IN /\ Cardinality(facts) + Len(explicit_list) + f.value + Len(f.names)
                  <= MaxFacts + 1
             /\ Started(e, f, OneForeign(e))

\* Runs over all packages, without dependencies, with every content of the
\* foreign list and of the sync database.
RepoInit ==
  \E i \in (SUBSET Names) \ {{}}, db \in Databases :
    /\ db.FOREIGN \subseteq i
    /\ Started(Environment(i, {}, <<Head(SortedSeq(i))>>),
               [mode |-> "", value |-> 0, names |-> <<>>], db)

\* Step 2: read of an empty explicit_list, the loop assigns EXPLICIT[""],
\* which bash refuses, and set -e ends the run.
ExplicitPackages ==
  /\ step = "explicit"
  /\ IF env.explicit_list = <<>>
     THEN step' = "aborted" /\ stderr' = [error |-> "bad array subscript", pkg |-> ""]
     ELSE step' = "filter" /\ UNCHANGED stderr
  /\ UNCHANGED <<env, filter, all_packages, worker, tmp_dir, failures_log,
                 selected_packages, qvars, xvars>>

\* Mutant: the loop goes on and the last name that is not installed is named.
NotInstalled_Last(e, names) ==
  IF \E i \in 1..Len(names) : names[i] \notin e.installed
  THEN names[CHOOSE i \in 1..Len(names) :
               /\ names[i] \notin e.installed
               /\ \A j \in (i + 1)..Len(names) : names[j] \in e.installed]
  ELSE NoPackage

\* The first name of the list that is not installed, "" if all are.
NotInstalled(e, names) ==
  IF \E i \in 1..Len(names) : names[i] \notin e.installed
  THEN names[CHOOSE i \in 1..Len(names) :
               /\ names[i] \notin e.installed
               /\ \A j \in 1..(i - 1) : names[j] \in e.installed]
  ELSE NoPackage

\* Step 2.5: without a filter all packages go on. A name given to --select
\* that is not installed ends the run; so does, under set -e and pipefail, a
\* pactree -o that fails because its package is not installed. Else the
\* packages are cut down to the trees of the selected ones.
FilterPackages ==
  /\ step = "filter"
  /\ IF filter.mode = ""
     THEN /\ step' = "foreign"
          /\ UNCHANGED <<all_packages, selected_packages, stderr>>
     ELSE \E chosen \in SelectedPackages(env, filter) :
            /\ selected_packages' = chosen
            /\ IF filter.mode = "select" /\ NotInstalled(env, chosen) # NoPackage
               THEN /\ step' = "aborted"
                    /\ stderr' = [error |-> "is not installed",
                                  pkg |-> NotInstalled(env, chosen)]
                    /\ UNCHANGED all_packages
               ELSE IF \E i \in 1..Len(chosen) : chosen[i] \notin env.installed
               THEN /\ step' = "aborted"
                    /\ UNCHANGED <<all_packages, stderr>>
               ELSE /\ step' = "foreign"
                    /\ all_packages' =
                         filtered_packages(all_packages,
                                           included_packages(env, chosen))
                    /\ UNCHANGED stderr
  /\ UNCHANGED <<env, filter, worker, tmp_dir, failures_log, qvars, xvars>>

\* Step 4: as in Step 2, the read of an empty foreign_list ends the run.
ForeignPackages ==
  /\ step = "foreign"
  /\ IF env.FOREIGN = {}
     THEN step' = "aborted" /\ stderr' = [error |-> "bad array subscript", pkg |-> ""]
     ELSE step' = "pactree" /\ UNCHANGED stderr
  /\ UNCHANGED <<env, filter, all_packages, worker, tmp_dir, failures_log,
                 selected_packages, qvars, xvars>>

\* Mutant: a foreign package is "aur" whatever the sync database says.
get_repo_ForeignFirst(pkg) ==
  IF pkg \in env.FOREIGN THEN "aur"
  ELSE IF env.REPO_CACHE[pkg] # "" THEN env.REPO_CACHE[pkg]
  ELSE "unknown"

get_repo(pkg) ==
  IF env.REPO_CACHE[pkg] # "" THEN env.REPO_CACHE[pkg]
  ELSE IF pkg \in env.FOREIGN THEN "aur"
  ELSE "unknown"

\* Foreign and in the sync database: a rebuilt official package.
is_local(pkg) == get_repo(pkg) # "aur" /\ pkg \in env.FOREIGN

Running == {p \in Range(all_packages) : worker[p] \in {"direct", "reverse"}}

\* xargs starts the next package of its input while fewer than JOBS run.
Spawn ==
  /\ step = "pactree"
  /\ Cardinality(Running) < JOBS
  /\ \E i \in 1..Len(all_packages) :
       /\ worker[all_packages[i]] = "queued"
       /\ \A j \in 1..(i - 1) : worker[all_packages[j]] # "queued"
       /\ worker' = [worker EXCEPT ![all_packages[i]] = "direct"]
  /\ UNCHANGED <<env, filter, all_packages, step, tmp_dir, failures_log,
                 selected_packages, stderr, qvars, xvars>>

\* Mutant: the failure is not written to the log.
log_error_Silent(log, pkg, reason) == log

\* Mutant: the log is opened with > and holds the last line only.
log_error_Truncating(log, pkg, reason) == <<[pkg |-> pkg, reason |-> reason]>>

\* log_error
log_error(log, pkg, reason) == Append(log, [pkg |-> pkg, reason |-> reason])

\* 1. Process Direct Dependencies
DirectDependencies ==
  \E pkg \in Range(all_packages) :
    /\ step = "pactree"
    /\ worker[pkg] = "direct"
    /\ IF <<pkg, "fail", "direct">> \in env.facts
       THEN /\ failures_log' = log_error(failures_log, pkg, "direct dep tree")
            /\ tmp_dir' = [tmp_dir EXCEPT ![pkg].dep = File({}),
                                          ![pkg].odep = File({})]
       ELSE /\ tmp_dir' =
                 [tmp_dir EXCEPT ![pkg].dep = File(Mandatory(DirectTree(env, pkg), pkg)),
                                 ![pkg].odep = File(Optional(DirectTree(env, pkg), pkg))]
            /\ UNCHANGED failures_log
    /\ worker' = [worker EXCEPT ![pkg] = "reverse"]
    /\ UNCHANGED <<env, filter, all_packages, step, selected_packages, stderr, qvars, xvars>>

\* 2. Process Reverse Dependencies
ReverseDependencies ==
  \E pkg \in Range(all_packages) :
    /\ step = "pactree"
    /\ worker[pkg] = "reverse"
    /\ IF <<pkg, "fail", "reverse">> \in env.facts
       THEN /\ failures_log' = log_error(failures_log, pkg, "reverse dep tree")
            /\ tmp_dir' = [tmp_dir EXCEPT ![pkg].rdep = File({}),
                                          ![pkg].ordep = File({})]
       ELSE /\ tmp_dir' =
                 [tmp_dir EXCEPT ![pkg].rdep = File(Mandatory(ReverseTree(env, pkg), pkg)),
                                 ![pkg].ordep = File(Optional(ReverseTree(env, pkg), pkg))]
            /\ UNCHANGED failures_log
    /\ worker' = [worker EXCEPT ![pkg] = "done"]
    /\ UNCHANGED <<env, filter, all_packages, step, selected_packages, stderr, qvars, xvars>>

\* Mutant: rdeps is read from the .ordep file.
ManifestNode_WrongFile(pkg) ==
  [id |-> pkg,
   explicit |-> pkg \in Range(env.explicit_list),
   version |-> "1.0",
   repo |-> get_repo(pkg),
   locally_built |-> is_local(pkg),
   depends_on |-> SortedSeq(tmp_dir[pkg].dep.lines),
   required_by |-> SortedSeq(tmp_dir[pkg].ordep.lines),
   optional_depends_on |-> SortedSeq(tmp_dir[pkg].odep.lines),
   optional_required_by |-> SortedSeq(tmp_dir[pkg].ordep.lines),
   broken |-> FALSE]

\* One line of the manifest, as the node the UI reads from the data file.
ManifestNode(pkg) ==
  [id |-> pkg,
   explicit |-> pkg \in Range(env.explicit_list),
   version |-> "1.0",
   repo |-> get_repo(pkg),
   locally_built |-> is_local(pkg),
   depends_on |-> SortedSeq(tmp_dir[pkg].dep.lines),
   required_by |-> SortedSeq(tmp_dir[pkg].rdep.lines),
   optional_depends_on |-> SortedSeq(tmp_dir[pkg].odep.lines),
   optional_required_by |-> SortedSeq(tmp_dir[pkg].ordep.lines),
   broken |-> FALSE]

\* Step 8 and jq: the data file is written once xargs has returned, and the
\* UI holds its nodes.
Manifest ==
  /\ step = "pactree"
  /\ \A p \in Range(all_packages) : worker[p] = "done"
  /\ step' = "done"
  /\ nodes' = [i \in 1..Len(all_packages) |-> ManifestNode(all_packages[i])]
  /\ input' = nodes'
  /\ ret' = NoReturn
  /\ call' = Called("none", NoPackage, "forward", 0)
  /\ UNCHANGED <<env, filter, all_packages, worker, tmp_dir, failures_log,
                 selected_packages, stderr, xvars>>

CollectNext ==
  \/ ExplicitPackages
  \/ FilterPackages
  \/ ForeignPackages
  \/ Spawn
  \/ DirectDependencies
  \/ ReverseDependencies
  \/ Manifest
  \/ ProcessBrokenDependencies

CollectSpec == CollectInit /\ [][CollectNext]_vars

SelectSpec == SelectInit /\ [][CollectNext]_vars

RepoSpec == RepoInit /\ [][CollectNext]_vars

(***************************************************************************)
(* collect-pactree.sh: the two sed programs on one line of a listing       *)
(***************************************************************************)
\* A line of pactree -o below the root: the tree glyphs, the name, for a
\* dependency that is not resolved its version constraint, for one that is
\* resolved through a provision the provision, a description, and the marks.
TreeLine(glyphs, name, version, provides, description, unresolvable, optional) ==
  glyphs \o <<name>>
    \o (IF version THEN <<">", "=", "1">> ELSE <<>>)
    \o (IF provides THEN <<" ", "provides", " ", "lib", "=", "1">> ELSE <<>>)
    \o (IF description THEN <<":", " ", "text">> ELSE <<>>)
    \o (IF unresolvable THEN <<" ", "[unresolvable]">> ELSE <<>>)
    \o (IF optional THEN <<" ", "(optional)">> ELSE <<>>)

TreeLines ==
  {TreeLine(x[1], x[2], x[3], x[4], x[5], x[6], x[7]) :
     x \in {y \in {<<"|-">>, <<"L-">>, <<"|", " ", "|-">>} \X Names \X BOOLEAN
                    \X BOOLEAN \X BOOLEAN \X BOOLEAN \X BOOLEAN :
              /\ y[3] => y[6]
              /\ y[4] => ~y[6]}}

ParseInit ==
  /\ sed \in {[pkg |-> p, line |-> l, printed |-> FALSE, dep |-> {}, odep |-> {}] :
                p \in Names, l \in TreeLines}
  /\ NoWalk
  /\ NoCollection
  /\ nodes = <<>>
  /\ input = <<>>
  /\ ret = NoReturn
  /\ call = Called("sed", NoPackage, "forward", 0)

\* echo "${output}" | sed -E "${NON_OPT_REGEX}" and | sed -E "${OPT_REGEX}"
Sed ==
  /\ ~sed.printed
  /\ sed.line # <<>>
  /\ sed' = [sed EXCEPT !.printed = TRUE,
                        !.dep = NON_OPT_REGEX(sed.line, sed.pkg),
                        !.odep = OPT_REGEX(sed.line, sed.pkg)]
  /\ UNCHANGED <<qvars, cvars, walk>>

ParseSpec == ParseInit /\ [][Sed]_vars

(***************************************************************************)
(* ui/lib/packages.ts: the recursive traversals, one step at a time        *)
(*                                                                         *)
(* A frame is a call in progress: the packageId it was given and i, the    *)
(* index of the forEach it is at, 0 while the call has not yet tested      *)
(* whether the id was met before.                                          *)
(***************************************************************************)
Traversals == {"collectPackageTree", "collectReversePackageTree", "collectDependencies"}

\* The graphs walked: adjacency entries only, self-loops and cycles among
\* them, and names without a record.
WalkGraphs ==
  UNION {{NodeList(ids, F) :
            F \in SubsetsUpTo({sl \in Slots : sl[1] \in ids /\ sl[2] \in {"dep", "req"}},
                              MaxSize)} :
           ids \in SUBSET Names}

\* Mutant: the test of the set is left out.
Seen_Never(op, packageId, result, visited) == FALSE

\* if (result.has(packageId)) return, if (visited.has(packageId)) return
Seen(op, packageId, result, visited) ==
  IF op = "collectDependencies" THEN packageId \in visited
  ELSE packageId \in result

\* The list the forEach of the traversal runs over.
Adjacency(op, pkg) ==
  IF op = "collectReversePackageTree" THEN pkg.required_by ELSE pkg.depends_on

Frame(packageId, i) == [id |-> packageId, i |-> i]

\* The stack with its top frame replaced.
SetTop(stack, frame) == [stack EXCEPT ![Len(stack)] = frame]

Pop(stack) == SubSeq(stack, 1, Len(stack) - 1)

WalkInit ==
  /\ nodes \in WalkGraphs
  /\ input = nodes
  /\ ret = NoReturn
  /\ call = Called("none", NoPackage, "forward", 0)
  /\ NoWalk
  /\ NoLine
  /\ NoCollection

\* The caller calls a traversal with empty sets.
WalkCall ==
  /\ walk.op = "none"
  /\ \E op \in Traversals, packageId \in Names :
       walk' = [walk EXCEPT !.op = op, !.stack = <<Frame(packageId, 0)>>,
                            !.calls = 1]
  /\ UNCHANGED <<qvars, cvars, sed>>

\* The head of a call: return if the id was met before; else add it to the
\* set, look its record up, return if there is none, and start the forEach.
WalkEnter ==
  /\ walk.stack # <<>>
  /\ walk.stack[Len(walk.stack)].i = 0
  /\ LET packageId == walk.stack[Len(walk.stack)].id
         added == IF Seen(walk.op, packageId, walk.result, walk.visited)
                  THEN walk
                  ELSE IF walk.op = "collectDependencies"
                  THEN [walk EXCEPT !.visited = @ \cup {packageId}]
                  ELSE [walk EXCEPT !.result = @ \cup {packageId}]
     IN IF Seen(walk.op, packageId, walk.result, walk.visited)
             \/ Find(nodes, packageId) = 0
        THEN walk' = [added EXCEPT !.stack = Pop(@)]
        ELSE walk' = [added EXCEPT !.stack = SetTop(@, Frame(packageId, 1)),
                                   !.expanded[packageId] = @ + 1]
  /\ UNCHANGED <<qvars, cvars, sed>>

\* One turn of the forEach: the call on the next entry of the list, after
\* result.add(dep) in collectDependencies; past the last entry, the return.
WalkForEach ==
  /\ walk.stack # <<>>
  /\ walk.stack[Len(walk.stack)].i > 0
  /\ LET top == walk.stack[Len(walk.stack)]
         list == Adjacency(walk.op, nodes[Find(nodes, top.id)])
     IN IF top.i > Len(list)
        THEN walk' = [walk EXCEPT !.stack = Pop(@)]
        ELSE walk' =
               [walk EXCEPT
                  !.stack = Append(SetTop(@, Frame(top.id, top.i + 1)),
                                   Frame(list[top.i], 0)),
                  !.result = IF walk.op = "collectDependencies"
                             THEN @ \cup {list[top.i]} ELSE @,
                  !.calls = @ + 1]
  /\ UNCHANGED <<qvars, cvars, sed>>

WalkNext == WalkCall \/ WalkEnter \/ WalkForEach

WalkSpec == WalkInit /\ [][WalkNext]_vars

(***************************************************************************)
(* Claims about the query engine, checked under Spec                       *)
(***************************************************************************)
Record(list, n) == list[Find(list, n)]

\* The names one edge of the direction away from n; none if n has no record.
Successors(list, n, direction) ==
  IF Find(list, n) = 0 THEN {}
  ELSE IF direction = "forward" THEN Range(Record(list, n).depends_on)
  ELSE Range(Record(list, n).required_by)

RECURSIVE Closure(_, _, _)
\* The least set holding S and closed under Successors.
Closure(S, list, direction) ==
  LET T == S \cup UNION {Successors(list, n, direction) : n \in S}
  IN IF T = S THEN S ELSE Closure(T, list, direction)

\* C1: collectPackageTree and collectReversePackageTree, called with an empty
\* result set, leave in it exactly the names reachable from the start by zero
\* or more depends_on (required_by) edges, the start included; a name with no
\* record is in the result and contributes nothing further.
C1_ClosureExact ==
  /\ call.op = "collectPackageTree"
       => ret.set = Closure({call.id}, input, "forward")
  /\ call.op = "collectReversePackageTree"
       => ret.set = Closure({call.id}, input, "reverse")

\* A forward tree of three names, the last of them without a record.
C1_Witness ==
  /\ call.op = "collectPackageTree"
  /\ Cardinality(ret.set) = 3
  /\ \E n \in ret.set : Find(input, n) = 0

\* The names some node refers to through one of the kinds and no node bears.
MissingTargets(list, fields) ==
  {t \in Names :
     /\ t \notin Ids(list)
     /\ \E i \in 1..Len(list) :
          \/ "depends_on" \in fields /\ t \in Range(list[i].depends_on)
          \/ "optional_depends_on" \in fields
               /\ t \in Range(list[i].optional_depends_on)}

\* The output is the input's records, in order, followed by exactly one
\* synthetic record for each name of missing, and nothing else.
AppendsExactly(in, out, missing) ==
  /\ Len(out) = Len(in) + Cardinality(missing)
  /\ \A i \in 1..Len(in) : out[i].id = in[i].id
  /\ \A t \in missing :
       \E i \in (Len(in) + 1)..Len(out) :
         /\ out[i].id = t
         /\ out[i].broken
         /\ out[i].version = "missing"
         /\ out[i].depends_on = <<>>
         /\ out[i].required_by = <<>>

\* C2 as stated: one synthetic record per distinct missing depends_on or
\* optional_depends_on target.
C2_Original ==
  call.op = "processBrokenDependencies"
    => AppendsExactly(input, ret.list,
                      MissingTargets(input, {"depends_on", "optional_depends_on"}))

\* C2 as amended: processBrokenDependencies appends exactly one synthetic
\* record (broken, version "missing", empty depends_on and required_by) for
\* each distinct name that is a depends_on target of some node and the name
\* of no input node, however many nodes refer to it, and no other record;
\* optional_depends_on targets are not looked at.
C2_SyntheticPerMissingDependsOn ==
  call.op = "processBrokenDependencies"
    => AppendsExactly(input, ret.list, MissingTargets(input, {"depends_on"}))

\* Two nodes depend on the same missing name.
C2_Witness ==
  /\ call.op = "processBrokenDependencies"
  /\ \E i, j \in 1..Len(input) :
       /\ i # j
       /\ \E t \in Range(input[i].depends_on) \cap Range(input[j].depends_on) :
            t \notin Ids(input)

\* C3: in the output of processBrokenDependencies every record taken over
\* from the input lists in required_by only names of input nodes, and has
\* the depends_on it had in the input.
C3_RealRecordsCleaned ==
  call.op = "processBrokenDependencies" /\ Len(input) > 0
    => /\ Len(ret.list) >= Len(input)
       /\ \A i \in 1..Len(input) :
            /\ ret.list[i].id = input[i].id
            /\ Range(ret.list[i].required_by) \subseteq Ids(input)
            /\ ret.list[i].depends_on = input[i].depends_on

\* A node is required by a name that has no record and that is synthesized
\* as broken in the same call.
C3_Witness ==
  /\ call.op = "processBrokenDependencies"
  /\ \E i \in 1..Len(input) :
       \E t \in Range(input[i].required_by) :
         /\ t \notin Ids(input)
         /\ \E k \in 1..Len(ret.list) : ret.list[k].id = t /\ ret.list[k].broken

\* C5 as stated: isOrphaned is true of a record iff the record is not
\* explicit, has an empty required_by and is not broken; so it is false of
\* every synthetic record of processBrokenDependencies.
C5_OrphanedIffNotBroken ==
  call.op = "isOrphaned"
    => ret.bool = (/\ ~input[call.at].explicit
                   /\ input[call.at].required_by = <<>>
                   /\ ~input[call.at].broken)

\* C6: countPackages returns explicit + dependency + broken = total = the
\* list's length, explicit the number of explicit nodes that are not broken,
\* broken the number of broken nodes, and dependency the number of nodes that
\* are neither, so never negative.
C6_CountsPartition ==
  call.op = "countPackages"
    => LET c == ret.counts
           neither == {i \in 1..Len(input) :
                         ~input[i].explicit /\ ~input[i].broken}
           explicitOnly == {i \in 1..Len(input) :
                              input[i].explicit /\ ~input[i].broken}
           brokenOnes == {i \in 1..Len(input) : input[i].broken}
       IN /\ c.explicit + c.dependency + c.broken = c.total
          /\ c.total = Len(input)
          /\ c.explicit = Cardinality(explicitOnly)
          /\ c.broken = Cardinality(brokenOnes)
          /\ c.dependency = Cardinality(neither)
          /\ c.dependency >= 0

\* A list is counted in which some node is both explicit and broken.
C6_Witness ==
  /\ call.op = "countPackages"
  /\ \E i \in 1..Len(input) : input[i].explicit /\ input[i].broken
  /\ ret.counts.dependency > 0

\* C7 as stated: every edge of a computed sub-graph has its source and its
\* target among the sub-graph's nodes.
C7_EdgeEndpointsReturned ==
  call.op = "subGraphData" /\ ret.kind = "graph"
    => \A k \in 1..Len(ret.links) :
         /\ ret.links[k].source \in Ids(ret.list)
         /\ ret.links[k].target \in Ids(ret.list)

\* The ordered pairs the sub-graph is to hold: from each included node's
\* depends_on when the direction includes forward and from its required_by
\* when it includes reverse, both ends within the tree.
ExpectedPairs(list, selected, direction) ==
  LET tree == IF selected = NoPackage THEN {}
              ELSE (IF direction # "reverse"
                    THEN Closure({selected}, list, "forward") ELSE {})
                     \cup (IF direction # "forward"
                           THEN Closure({selected}, list, "reverse") ELSE {})
      inTree == {i \in 1..Len(list) : list[i].id \in tree}
  IN (IF direction # "reverse"
      THEN {<<list[i].id, d>> : <<i, d>> \in
              {x \in inTree \X tree : x[2] \in Range(list[x[1]].depends_on)}}
      ELSE {})
       \cup (IF direction # "forward"
             THEN {<<r, list[i].id>> : <<i, r>> \in
                     {x \in inTree \X tree : x[2] \in Range(list[x[1]].required_by)}}
             ELSE {})

\* C8: no ordered pair (source, target) is twice in the edge list of a
\* sub-graph, whichever adjacency list produced it, and every pair that is
\* due is there, the opposite of a pair being an edge of its own.
C8_EdgesOncePerOrderedPair ==
  call.op = "subGraphData" /\ ret.kind = "graph"
    => /\ \A j, k \in 1..Len(ret.links) :
            ret.links[j].source = ret.links[k].source
              /\ ret.links[j].target = ret.links[k].target => j = k
       /\ {<<ret.links[k].source, ret.links[k].target>> : k \in 1..Len(ret.links)}
            = ExpectedPairs(input, call.id, call.direction)

\* Under "both", a pair found in the source's depends_on and again in the
\* target's required_by, while the opposite pair is an edge too.
C8_Witness ==
  /\ call.op = "subGraphData" /\ ret.kind = "graph" /\ call.direction = "both"
  /\ \E i, j \in 1..Len(input) :
       /\ i # j
       /\ input[j].id \in Range(input[i].depends_on)
       /\ input[i].id \in Range(input[j].required_by)
       /\ \E k \in 1..Len(ret.links) :
            ret.links[k].source = input[i].id /\ ret.links[k].target = input[j].id
       /\ \E k \in 1..Len(ret.links) :
            ret.links[k].source = input[j].id /\ ret.links[k].target = input[i].id

\* C9: for a focal name that no node of the list bears, sub-graph extraction
\* returns no node and no edge, in every direction mode, and does not throw.
C9_UnknownFocalEmpty ==
  call.op = "subGraphData" /\ call.id \in Names /\ call.id \notin Ids(input)
    => ret.kind = "graph" /\ ret.list = <<>> /\ ret.links = <<>>

\* The focal name has no record, yet a node of the list depends on it.
C9_Witness ==
  /\ call.op = "subGraphData"
  /\ call.id \in Names /\ call.id \notin Ids(input)
  /\ \E i \in 1..Len(input) : call.id \in Range(input[i].depends_on)

\* C10 as stated: no query operation changes the node list it is called on
\* or a record of it.
C10_InputUnchanged == ~Idle => nodes = input

(***************************************************************************)
(* Claims about a collection run, checked under CollectSpec                *)
(***************************************************************************)
\* The collected nodes have been through processBrokenDependencies.
Cleaned == step = "done" /\ call.op = "processBrokenDependencies"

\* The reverse listing of the package failed in this run.
ReverseFailed(pkg) ==
  \E k \in 1..Len(failures_log) :
    failures_log[k] = [pkg |-> pkg, reason |-> "reverse dep tree"]

Filtered == step \notin {"explicit", "filter"}

\* The names the list names that are not installed packages.
Uninstalled(names) == {i \in 1..Len(names) : names[i] \notin env.installed}

\* C11: in a run that reaches the selection, --first N selects the first
\* min(N, len) and --last N the last min(N, len) entries of the explicit list
\* in the order pacman lists them, and the run does not end there; so a
\* count above the length selects the whole list and a count of 0 nothing.
C11_FirstLastClamped ==
  Filtered /\ filter.mode \in {"first", "last"} /\ env.explicit_list # <<>>
    => LET len == Len(env.explicit_list)
           n == IF filter.value < len THEN filter.value ELSE len
       IN /\ step # "aborted"
          /\ Len(selected_packages) = n
          /\ \A i \in 1..n :
               selected_packages[i] =
                 IF filter.mode = "first" THEN env.explicit_list[i]
                 ELSE env.explicit_list[len - n + i]

\* --last with a count above the number of explicit packages has selected
\* them all and the workers are running.
C11_Witness ==
  /\ filter.mode = "last"
  /\ filter.value > Len(env.explicit_list)
  /\ selected_packages = env.explicit_list
  /\ selected_packages # <<>>
  /\ \E p \in Range(all_packages) : worker[p] = "done"

\* C12 as stated: --random N with N above the number of explicit packages
\* ends the run with an error before the collection starts.
C12_RandomAboveCountAborts ==
  Filtered /\ filter.mode = "random" /\ filter.value > Len(env.explicit_list)
    => step = "aborted" /\ stderr # NoError

\* C13: in a run that reaches the selection with --select and a list that
\* names a package that is not installed, the run ends with the error that
\* names the first such name of the list; no worker is ever started, no
\* tree file is written and no node is put out.
C13_UninstalledNameAborts ==
  filter.mode = "select" /\ Uninstalled(filter.names) # {}
    => /\ step \in {"explicit", "filter", "aborted"}
       /\ \A p \in env.installed :
            /\ worker[p] = "queued"
            /\ \A k \in {"dep", "odep", "rdep", "ordep"} : ~tmp_dir[p][k].exists
       /\ nodes = <<>>
       /\ step = "aborted" /\ env.explicit_list # <<>>
            => /\ stderr.error = "is not installed"
               /\ \E i \in Uninstalled(filter.names) :
                    /\ stderr.pkg = filter.names[i]
                    /\ \A j \in Uninstalled(filter.names) : i <= j

\* The list names two packages that are not installed, the one that is
\* later by name first, and the run has ended.
C13_Witness ==
  /\ step = "aborted"
  /\ filter.mode = "select"
  /\ Cardinality(Uninstalled(filter.names)) = 2
  /\ Rank(filter.names[1]) > Rank(filter.names[2])
  /\ stderr.pkg = filter.names[1]

RECURSIVE ForwardClosure(_, _)
\* The least set of names that holds S and, with a package, what it depends
\* on and what it optionally depends on.
ForwardClosure(e, S) ==
  LET T == S \cup {x[3] : x \in {f \in e.facts :
                                   f[1] \in S /\ f[2] \in {"dep", "opt"}}}
  IN IF T = S THEN S ELSE ForwardClosure(e, T)

\* C14: after a selection, the packages that go on to collection are exactly
\* the installed packages within the union of the forward closures of the
\* seeds, optional edges followed and the seeds included, in the order of
\* the list of installed packages.
C14_FilteredIsInstalledClosure ==
  step \in {"pactree", "done"} /\ filter.mode # ""
    => all_packages =
         SortedSeq(env.installed
                     \cap ForwardClosure(env, Range(selected_packages)))

\* A package that is no seed is kept for an optional edge, and a name of the
\* closure is not installed.
C14_Witness ==
  /\ step = "pactree"
  /\ filter.mode # ""
  /\ \E p \in Range(all_packages) :
       /\ p \notin Range(selected_packages)
       /\ \A x \in env.facts : x[3] = p => x[2] = "opt"
  /\ ForwardClosure(env, Range(selected_packages)) \ env.installed # {}

(***************************************************************************)
(* Claims about the workers, checked under CollectSpec                     *)
(***************************************************************************)
\* The tool call of the direction fails for the package in this run.
Fails(pkg, direction) == <<pkg, "fail", direction>> \in env.facts

\* The four edge sets of a package as the package database has them; an
\* optional dependency that is not installed bears the mark.
EdgeSets(pkg) ==
  [dep |-> {d \in Names : <<pkg, "dep", d>> \in env.facts},
   odep |-> {IF d \in env.installed THEN d ELSE d \o "*" :
               d \in {x \in Names : <<pkg, "opt", x>> \in env.facts}},
   rdep |-> {q \in env.installed : <<q, "dep", pkg>> \in env.facts},
   ordep |-> {q \in env.installed : <<q, "opt", pkg>> \in env.facts}]

\* The number of lines of the log that name the package and the phase.
Logged(pkg, reason) ==
  Cardinality({k \in 1..Len(failures_log) :
                 failures_log[k] = [pkg |-> pkg, reason |-> reason]})

\* C15: when the tool fails for one direction of a package, the worker of
\* the package still leaves all four files, the two of the failed direction
\* empty and the two of the other direction as the tool listed them, and a
\* line of the log names the package and the phase; the run never ends for
\* it: every package gets its worker and its node.
C15_FailureDegradesOneDirection ==
  /\ \A p \in Range(all_packages) :
       worker[p] = "done" /\ (Fails(p, "direct") \/ Fails(p, "reverse"))
         => /\ \A k \in {"dep", "odep", "rdep", "ordep"} : tmp_dir[p][k].exists
            /\ IF Fails(p, "direct")
               THEN /\ tmp_dir[p].dep.lines = {} /\ tmp_dir[p].odep.lines = {}
                    /\ Logged(p, "direct dep tree") >= 1
               ELSE /\ tmp_dir[p].dep.lines = EdgeSets(p).dep
                    /\ tmp_dir[p].odep.lines = EdgeSets(p).odep
            /\ IF Fails(p, "reverse")
               THEN /\ tmp_dir[p].rdep.lines = {} /\ tmp_dir[p].ordep.lines = {}
                    /\ Logged(p, "reverse dep tree") >= 1
               ELSE /\ tmp_dir[p].rdep.lines = EdgeSets(p).rdep
                    /\ tmp_dir[p].ordep.lines = EdgeSets(p).ordep
  /\ step = "aborted" => \A p \in DOMAIN worker : worker[p] = "queued"
  /\ step = "done"
       => /\ \A p \in Range(all_packages) : worker[p] = "done"
          /\ Len(nodes) = Len(all_packages)
          /\ \A i \in 1..Len(nodes) : nodes[i].id = all_packages[i]

\* The data file is written after a run in which the direct listing of a
\* package failed while its reverse listing named a package, whose own
\* listings went through.
C15_Witness ==
  /\ step = "done"
  /\ \E i, j \in 1..Len(nodes) :
       /\ Fails(nodes[i].id, "direct") /\ ~Fails(nodes[i].id, "reverse")
       /\ nodes[i].depends_on = <<>>
       /\ nodes[j].id \in Range(nodes[i].required_by)
       /\ nodes[i].id \in Range(nodes[j].depends_on)

\* C16: whatever the order in which the workers run and finish, a worker
\* that is done has left the four edge sets that the tool results of its
\* package give, whatever the other workers are at, and the nodes written
\* are those of these edge sets.
C16_OrderIndependent ==
  LET files(p) ==
        [dep |-> File(IF Fails(p, "direct") THEN {} ELSE EdgeSets(p).dep),
         odep |-> File(IF Fails(p, "direct") THEN {} ELSE EdgeSets(p).odep),
         rdep |-> File(IF Fails(p, "reverse") THEN {} ELSE EdgeSets(p).rdep),
         ordep |-> File(IF Fails(p, "reverse") THEN {} ELSE EdgeSets(p).ordep)]
  IN /\ \A p \in Range(all_packages) : worker[p] = "done" => tmp_dir[p] = files(p)
     /\ step = "done"
          => \A i \in 1..Len(all_packages) :
               LET p == all_packages[i]
               IN /\ nodes[i].id = p
                  /\ Range(nodes[i].depends_on) = files(p).dep.lines
                  /\ Range(nodes[i].optional_depends_on) = files(p).odep.lines
                  /\ Range(nodes[i].required_by) = files(p).rdep.lines
                  /\ Range(nodes[i].optional_required_by) = files(p).ordep.lines

\* A worker is done, and has left an edge, while the worker of a package
\* that was started before it is still at its first listing.
C16_Witness ==
  /\ step = "pactree"
  /\ \E i, j \in 1..Len(all_packages) :
       /\ i < j
       /\ worker[all_packages[i]] = "direct"
       /\ worker[all_packages[j]] = "done"
       /\ tmp_dir[all_packages[j]].dep.lines # {}

\* C17 as stated: at the end of the collection the log has exactly one line
\* for each package a tool call failed for, and none for any other.
C17_Original ==
  step = "done"
    => \A p \in Range(all_packages) :
         Cardinality({k \in 1..Len(failures_log) : failures_log[k].pkg = p})
           = IF Fails(p, "direct") \/ Fails(p, "reverse") THEN 1 ELSE 0

\* C17 as amended: at the end of the collection the log has exactly one line
\* for each failed tool call, naming its package and its phase, so two for a
\* package both of whose calls failed, and no other line; no line is lost
\* and no call is made twice.
C17_OneLinePerFailedCall ==
  step = "done"
    => /\ \A p \in Range(all_packages) :
            /\ Logged(p, "direct dep tree") = IF Fails(p, "direct") THEN 1 ELSE 0
            /\ Logged(p, "reverse dep tree") = IF Fails(p, "reverse") THEN 1 ELSE 0
       /\ \A k \in 1..Len(failures_log) :
            /\ failures_log[k].pkg \in Range(all_packages)
            /\ failures_log[k].reason \in {"direct dep tree", "reverse dep tree"}

\* The calls of two packages failed, and the line of the package started
\* later is in the log before a line of the package started earlier.
C17_Witness ==
  /\ step = "done"
  /\ Len(failures_log) >= 3
  /\ \E j, k \in 1..Len(failures_log) :
       j < k /\ Rank(failures_log[j].pkg) > Rank(failures_log[k].pkg)

(***************************************************************************)
(* Claims about the assembled records, checked under RepoSpec              *)
(***************************************************************************)
\* C18: in every record of the data file, locally_built is true iff the
\* package is foreign and its repo is not "aur", which is iff it is foreign
\* and the sync database lists it; so a record with the repo "aur" or
\* "unknown" is not locally built; and the repo of a package the sync
\* database does not list is "aur" if it is foreign and "unknown" if not.
C18_LocallyBuiltIffForeignInRepo ==
  step = "done"
    => \A i \in 1..Len(nodes) :
         LET n == nodes[i]
             foreign == n.id \in env.FOREIGN
             listed == env.REPO_CACHE[n.id] # ""
         IN /\ n.locally_built = (foreign /\ n.repo # "aur")
            /\ n.locally_built = (foreign /\ listed)
            /\ n.repo \in {"aur", "unknown"} => ~n.locally_built
            /\ listed => n.repo = env.REPO_CACHE[n.id]
            /\ ~listed => n.repo = IF foreign THEN "aur" ELSE "unknown"

\* The data file holds a locally built package, a package of the repo "aur"
\* and a package of the repo "unknown".
C18_Witness ==
  /\ step = "done"
  /\ \E i, j, k \in 1..Len(nodes) :
       /\ nodes[i].locally_built
       /\ nodes[j].repo = "aur"
       /\ nodes[k].repo = "unknown"

(***************************************************************************)
(* Claims about the parsing of a line, checked under ParseSpec             *)
(***************************************************************************)
\* The name the line is about: what follows the tree glyphs.
LineName(line) == Head(StripTree(line))

\* C19 as stated: a line that is not about the package itself puts one name
\* in the optional set if it bears (optional) and in the mandatory set if
\* not, and nothing in the other set; the name is the bare name of the line,
\* without version constraint or text, in both sets, but for a * after it in
\* the optional set when the line bears [unresolvable].
C19_BareNameInOneSet ==
  sed.printed /\ LineName(sed.line) # sed.pkg
    => LET unresolvable == \E i \in 1..Len(sed.line) : sed.line[i] = "[unresolvable]"
       IN IF IsOptionalLine(sed.line)
          THEN /\ sed.dep = {}
               /\ sed.odep = {IF unresolvable THEN LineName(sed.line) \o "*"
                              ELSE LineName(sed.line)}
          ELSE /\ sed.dep = {LineName(sed.line)}
               /\ sed.odep = {}

(***************************************************************************)
(* Claims about the steps of a traversal, checked under WalkSpec           *)
(***************************************************************************)
RECURSIVE Entries(_, _)
\* The number of entries of the adjacency lists the traversal runs over.
Entries(op, list) ==
  IF list = <<>> THEN 0
  ELSE Len(Adjacency(op, Head(list))) + Entries(op, Tail(list))

\* C20: in a traversal of any graph, with cycles and self-loops or without,
\* the adjacency list of a name is expanded at most once; so there are at
\* most as many calls as one more than the entries of all lists and never
\* more calls in progress than one more than there are names: the traversal
\* ends.
C20_TerminatesExpandingOnce ==
  walk.op # "none"
    => /\ \A n \in Names : walk.expanded[n] <= 1
       /\ walk.calls <= 1 + Entries(walk.op, nodes)
       /\ Len(walk.stack) <= Cardinality(Names) + 1

\* A traversal has returned from a graph in which a package depends on
\* itself and two packages depend on each other, after calls that met a name
\* for the second time.
C20_Witness ==
  /\ walk.op = "collectPackageTree"
  /\ walk.stack = <<>>
  /\ \E i, j \in 1..Len(nodes) :
       /\ i # j
       /\ nodes[i].id \in Range(nodes[i].depends_on)
       /\ nodes[j].id \in Range(nodes[i].depends_on)
       /\ nodes[i].id \in Range(nodes[j].depends_on)
  /\ walk.calls > Cardinality(walk.result)

(***************************************************************************)
(* Claims about a repeated broken-dependency pass, checked under Spec      *)
(***************************************************************************)
UniqueNames(list) ==
  \A i, j \in 1..Len(list) : list[i].id = list[j].id => i = j

\* The two lists have the same records: the same names with the same broken
\* flags, depends_on and required_by, in the same places.
SameRecords(l1, l2) ==
  /\ Len(l1) = Len(l2)
  /\ \A i \in 1..Len(l1) :
       /\ l1[i].id = l2[i].id
       /\ l1[i].broken = l2[i].broken
       /\ l1[i].depends_on = l2[i].depends_on
       /\ l1[i].required_by = l2[i].required_by

\* C21: processBrokenDependencies is idempotent: for an input list with
\* unique names, the pass applied to its own output returns the same records
\* and no further synthetic record; the output has no two records with the
\* same name, and a record that is not broken in the input is not broken in
\* the output.
C21_Idempotent ==
  (call.op = "processBrokenDependencies" /\ UniqueNames(input))
    => /\ SameRecords(processBrokenDependencies(ret.list), ret.list)
       /\ UniqueNames(ret.list)
       /\ \A i \in 1..Len(input), k \in 1..Len(ret.list) :
            (ret.list[k].id = input[i].id /\ ~input[i].broken)
              => ~ret.list[k].broken

\* The pass has appended a synthetic record and removed a required_by entry,
\* beside a record of the input that is not broken; the pass on this output
\* gives the output again.
C21_Witness ==
  /\ call.op = "processBrokenDependencies"
  /\ UniqueNames(input)
  /\ Len(ret.list) > Len(input)
  /\ \E i \in 1..Len(input) :
       /\ ~input[i].broken
       /\ Len(ret.list[i].required_by) < Len(input[i].required_by)
  /\ processBrokenDependencies(ret.list) = ret.list

====
